---- MODULE Spec2Model ----
(***************************************************************************)
(* Model of the projection engine of src/main.py: the nine calculator      *)
(* functions behind the Financial Calculators API.                         *)
(*                                                                         *)
(* Numbers.  Python floats are modelled as decimal fixed-point numbers:    *)
(* the integer x stands for the real x / SCALE, and every float operation  *)
(* is the exact operation followed by rounding to the nearest              *)
(* representable value (ties to even), as IEEE-754 does at its own         *)
(* precision.  Python ints (years, months, ages) stay integers.  A call    *)
(* that ends in an uncaught exception has the result                       *)
(* [fault |-> <exception name>].                                           *)
(*                                                                         *)
(* Inputs.  Money arguments are whole currency units, rates are whole      *)
(* percentages >= 0, years/ages/months are integers that may be zero or    *)
(* negative (the request layer only checks the type).                      *)
(***************************************************************************)
EXTENDS Integers, Sequences, FiniteSets, TLC

\* Precision of the fixed-point numbers: x stands for x / SCALE.
SCALE == 1000

\* Largest |years| drawn for the time horizons.
MaxYears == 2

\* Largest education duration drawn.
MaxDuration == 2

\* Safety cap of the tenure loop: 60 years.
max_months == 720

ONE == SCALE

FromInt(n) == n * SCALE

Abs(x) == IF x < 0 THEN -x ELSE x

Max(a, b) == IF a >= b THEN a ELSE b

\* q + 1 when the remainder r of a division by d rounds q up (ties to even).
Nearest(q, r, d) == IF 2 * r > d \/ (2 * r = d /\ q % 2 = 1) THEN q + 1 ELSE q

\* a / d rounded to the nearest integer, d > 0.
RoundDiv(a, d) == Nearest(a \div d, a % d, d)

\* float * float.
Mul(a, b) ==
    LET q == a \div SCALE
        t == (a % SCALE) * b
    IN  Nearest(q * b + (t \div SCALE), t % SCALE, SCALE)

\* float / float for a divisor b # 0 (b = 0 raises ZeroDivisionError, which
\* the callers test before dividing).
Div(a, b) ==
    LET n == IF b < 0 THEN -a ELSE a
        d == Abs(b)
    IN  (n \div d) * SCALE + RoundDiv((n % d) * SCALE, d)

\* round(x, 0): nearest whole number, ties to even.
Round0(x) == RoundDiv(x, SCALE) * SCALE

\* round(x, 2): nearest hundredth, ties to even.
Round2(x) == RoundDiv(x, SCALE \div 100) * (SCALE \div 100)

\* x ** n for an int n >= 0: the product of n factors x, each product rounded.
RECURSIVE PowPos(_, _)
PowPos(x, n) ==
    IF n <= 0 THEN ONE
    ELSE IF n = 1 THEN x
    ELSE Mul(PowPos(x, n \div 2), PowPos(x, n - (n \div 2)))

\* x ** n for an int n raises ZeroDivisionError when x = 0 and n < 0.
PowFaults(x, n) == x = 0 /\ n < 0

\* x ** n for an int n, PowFaults(x, n) excluded.
Pow(x, n) == IF n >= 0 THEN PowPos(x, n) ELSE Div(ONE, PowPos(x, -n))

\* x ** (1 / 12) for x >= 0: the twelfth root, rounded down.
Root12(x) ==
    CHOOSE g \in (IF x >= ONE THEN ONE ELSE 0)..Max(x, ONE) :
        PowPos(g, 12) <= x /\ PowPos(g + 1, 12) > x

\* annual_return / 100
Percent(p) == Div(FromInt(p), FromInt(100))

\* Effective monthly rate: (1 + annual / 100) ** (1 / 12) - 1
EffectiveMonthlyRate(annual) == Root12(ONE + Percent(annual)) - ONE

\* Nominal monthly rate: annual / 100 / 12
NominalMonthlyRate(annual) == Div(Percent(annual), FromInt(12))

Fault(kind) == [fault |-> kind]

IsFault(r) == "fault" \in DOMAIN r

NoResult == [pending |-> TRUE]

Returned(r) == r # NoResult /\ ~IsFault(r)

----------------------------------------------------------------------------
\* Input domains.
Moneys == {0, 1, 50}
Rates == {0, 6, 12}
Years == (0 - 1)..MaxYears
StepUps == {0, 10}
Loans == {0, 100, 1000}
Targets == {0, 10, 1000}
TenureRates == {0, 12}
Delays == {0, 6, 12, 12 * MaxYears, 12 * MaxYears + 6}
Ages == {30}
GoalAges == 29..(30 + MaxYears)
LifeExpectancies == {30, 33}
Costs == {0, 100}
Corpora == {0, 100, 1000}
Inflations == {0, 6}
Expenses == {1, 10}
Savings == {0, 1}
PreReturns == {0, 12}
PostReturns == {6, 12}

----------------------------------------------------------------------------
\* SIP future value.

\* Variant of sip_month with the sign of the rate flipped:
\* corpus = (corpus + monthly_sip) * (1 - monthly_r)
sip_month_sign_slip(corpus, monthly_sip, monthly_r) ==
    Mul(corpus + monthly_sip, ONE - monthly_r)

\* One month of an annuity due: corpus = (corpus + monthly_sip) * (1 + monthly_r)
sip_month(corpus, monthly_sip, monthly_r) == Mul(corpus + monthly_sip, ONE + monthly_r)

\* The corpus after `months` more iterations of the loop body, from `corpus`;
\* range(months) is empty for months <= 0.  The iterations run in order, the
\* second half from the corpus `mid` that the first half leaves.
RECURSIVE sip_iterate(_, _, _, _)
sip_iterate(corpus, monthly_sip, monthly_r, months) ==
    IF months <= 0 THEN corpus
    ELSE IF months = 1 THEN sip_month(corpus, monthly_sip, monthly_r)
    ELSE CHOOSE c \in
            {sip_iterate(mid, monthly_sip, monthly_r, months - (months \div 2)) :
                mid \in {sip_iterate(corpus, monthly_sip, monthly_r, months \div 2)}} :
            TRUE

\* corpus = 0; for _ in range(months): corpus = (corpus + monthly_sip) * (1 + monthly_r)
sip_loop(monthly_sip, monthly_r, months) == sip_iterate(0, monthly_sip, monthly_r, months)

sip_calculator(monthly_sip, years, annual_return) ==
    LET monthly_r == EffectiveMonthlyRate(annual_return)
        months == years * 12
        total_invested == FromInt(monthly_sip) * months
        corpus == sip_loop(FromInt(monthly_sip), monthly_r, months)
    IN  IF total_invested = 0 THEN Fault("ZeroDivisionError")
        ELSE [maturity_value |-> Round0(corpus),
              total_invested |-> Round0(total_invested),
              wealth_gained |-> Round0(corpus - total_invested),
              multiple |-> Round2(Div(corpus, total_invested))]

----------------------------------------------------------------------------
\* Step-up SIP.

\* The loop body for `month`; st holds the locals corpus, total_invested, current_sip.
step_up_month(st, month, monthly_r, annual_step_up) ==
    LET current_sip ==
            IF month > 1 /\ (month - 1) % 12 = 0
            THEN Mul(st.current_sip, ONE + Percent(annual_step_up))
            ELSE st.current_sip
    IN  [corpus |-> Mul(st.corpus + current_sip, ONE + monthly_r),
         total_invested |-> st.total_invested + current_sip,
         current_sip |-> current_sip]

\* The locals after the iterations for month = first, ..., last, in order.
RECURSIVE step_up_iterate(_, _, _, _, _)
step_up_iterate(st, first, last, monthly_r, annual_step_up) ==
    IF first > last THEN st
    ELSE IF first = last THEN step_up_month(st, first, monthly_r, annual_step_up)
    ELSE CHOOSE c \in
            {step_up_iterate(mid, ((first + last) \div 2) + 1, last,
                             monthly_r, annual_step_up) :
                mid \in {step_up_iterate(st, first, (first + last) \div 2,
                                         monthly_r, annual_step_up)}} :
            TRUE

sip_step_up_calculator(monthly_sip, years, annual_return, annual_step_up) ==
    LET monthly_r == EffectiveMonthlyRate(annual_return)
        total_months == years * 12
        st == step_up_iterate([corpus |-> 0, total_invested |-> 0,
                               current_sip |-> FromInt(monthly_sip)],
                              1, total_months, monthly_r, annual_step_up)
    IN  IF st.total_invested = 0 THEN Fault("ZeroDivisionError")
        ELSE [maturity_value |-> Round0(st.corpus),
              total_invested |-> Round0(st.total_invested),
              wealth_gained |-> Round0(st.corpus - st.total_invested),
              multiple |-> Round2(Div(st.corpus, st.total_invested))]

----------------------------------------------------------------------------
\* EMI.

emi_calculator(loan_amount, tenure_years, annual_interest_rate) ==
    LET r == NominalMonthlyRate(annual_interest_rate)
        n == tenure_years * 12
        growth == Pow(ONE + r, n)
        emi == IF r = 0 THEN Div(FromInt(loan_amount), FromInt(n))
               ELSE Div(Mul(Mul(FromInt(loan_amount), r), growth), growth - ONE)
        total_payment == emi * n
        total_interest == total_payment - FromInt(loan_amount)
    IN  IF r = 0 /\ n = 0 THEN Fault("ZeroDivisionError")
        ELSE IF r # 0 /\ (PowFaults(ONE + r, n) \/ growth - ONE = 0)
        THEN Fault("ZeroDivisionError")
        ELSE [emi |-> Round0(emi),
              total_payment |-> Round0(total_payment),
              total_interest |-> Round0(total_interest)]

----------------------------------------------------------------------------
\* SIP tenure.  The while loop runs one iteration per step; `frame` holds the
\* locals of the running call.

\* Variant of tenure_continues that compares with <=:
\* while corpus <= target_amount and months < max_months
tenure_continues_le(corpus, months, target_amount) ==
    corpus <= FromInt(target_amount) /\ months < max_months

\* while corpus < target_amount and months < max_months
tenure_continues(corpus, months, target_amount) ==
    corpus < FromInt(target_amount) /\ months < max_months

\* math.ceil(months / 12)
years_required(months) == 0 - ((0 - months) \div 12)

----------------------------------------------------------------------------
\* Lump sum.  An Optional[float] is <<>> for None and <<v>> for the value v.

None == <<>>

\* Variant of inflation_supplied that tests truthiness: if inflation
inflation_truthy(inflation) == inflation # None /\ inflation[1] # 0

\* if inflation is not None
inflation_supplied(inflation) == inflation # None

lumpsum_calculator(amount, years, annual_return, inflation) ==
    LET monthly_r == EffectiveMonthlyRate(annual_return)
        months == years * 12
        future_value == Mul(FromInt(amount), Pow(ONE + monthly_r, months))
        monthly_i == EffectiveMonthlyRate(inflation[1])
        deflator == Pow(ONE + monthly_i, months)
    IN  IF PowFaults(ONE + monthly_r, months) THEN Fault("ZeroDivisionError")
        ELSE IF ~inflation_supplied(inflation)
        THEN [future_value |-> Round0(future_value)]
        ELSE IF PowFaults(ONE + monthly_i, months) \/ deflator = 0
        THEN Fault("ZeroDivisionError")
        ELSE [future_value |-> Round0(future_value),
              inflation_adjusted_value |-> Round0(Div(future_value, deflator))]

----------------------------------------------------------------------------
\* Goal-gap solvers.

\* sum over year in range(education_duration_years) of
\* inflated_annual_cost * (1 + education_inflation / 100) ** year
RECURSIVE education_total(_, _, _)
education_total(inflated_annual_cost, education_inflation, duration) ==
    IF duration <= 0 THEN 0
    ELSE education_total(inflated_annual_cost, education_inflation, duration - 1)
         + Mul(inflated_annual_cost,
               Pow(ONE + Percent(education_inflation), duration - 1))

\* Steps 4 to 6 of education_calculator and the same lines of
\* marriage_calculator: the gap, the lump sum today and the monthly SIP, or
\* the fault that ends the call.  `required` is the future cost, years the
\* horizon to the goal.
investment_required(required, existing_corpus_future, investment_return, years) ==
    LET gap == Max(0, required - existing_corpus_future)
        growth == Pow(ONE + Percent(investment_return), years)
        lump_sum_today == IF gap > 0 THEN Div(gap, growth) ELSE 0
        monthly_r == NominalMonthlyRate(investment_return)
        months == years * 12
        sip_factor == Div(Pow(ONE + monthly_r, months) - ONE, monthly_r)
        sip_factor_due == Mul(sip_factor, ONE + monthly_r)
        monthly_sip == IF gap > 0 THEN Div(gap, sip_factor_due) ELSE 0
    IN  IF gap > 0 /\ growth = 0 THEN Fault("ZeroDivisionError")
        ELSE IF PowFaults(ONE + monthly_r, months) \/ monthly_r = 0
        THEN Fault("ZeroDivisionError")
        ELSE IF gap > 0 /\ sip_factor_due = 0 THEN Fault("ZeroDivisionError")
        ELSE [lump_sum_today |-> Round0(lump_sum_today),
              monthly_sip |-> Round0(monthly_sip)]

\* Steps 1 and 2: the total cost of the education years, at college prices.
education_total_required(years_to_college, education_duration_years, annual_cost_today, education_inflation) ==
    education_total(Mul(FromInt(annual_cost_today),
                        Pow(ONE + Percent(education_inflation), years_to_college)),
                    education_inflation, education_duration_years)

\* existing_corpus * (1 + investment_return / 100) ** years
corpus_future(existing_corpus, investment_return, years) ==
    Mul(FromInt(existing_corpus), Pow(ONE + Percent(investment_return), years))

education_calculator(child_age, college_age, education_duration_years, annual_cost_today, existing_corpus, investment_return, education_inflation) ==
    LET years_to_college == college_age - child_age
        total_required ==
            education_total_required(years_to_college, education_duration_years,
                                     annual_cost_today, education_inflation)
        existing_corpus_future ==
            corpus_future(existing_corpus, investment_return, years_to_college)
        required == investment_required(total_required, existing_corpus_future,
                                        investment_return, years_to_college)
    IN  IF PowFaults(ONE + Percent(education_inflation), years_to_college)
           \/ PowFaults(ONE + Percent(investment_return), years_to_college)
        THEN Fault("ZeroDivisionError")
        ELSE IF IsFault(required) THEN required
        ELSE [goal_at_college |-> [total_required |-> Round0(total_required)],
              existing_corpus |-> [today |-> FromInt(existing_corpus),
                                   value_at_college |-> Round0(existing_corpus_future)],
              investment_required |-> required]

\* marriage_cost_today * (1 + cost_inflation / 100) ** years_to_goal
marriage_inflated_cost(years_to_goal, marriage_cost_today, cost_inflation) ==
    Mul(FromInt(marriage_cost_today),
        Pow(ONE + Percent(cost_inflation), years_to_goal))

marriage_calculator(current_age, marriage_age, marriage_cost_today, existing_corpus, investment_return, cost_inflation) ==
    LET years_to_goal == marriage_age - current_age
        inflated_cost ==
            marriage_inflated_cost(years_to_goal, marriage_cost_today, cost_inflation)
        existing_corpus_future ==
            corpus_future(existing_corpus, investment_return, years_to_goal)
        required == investment_required(inflated_cost, existing_corpus_future,
                                        investment_return, years_to_goal)
    IN  IF PowFaults(ONE + Percent(cost_inflation), years_to_goal)
           \/ PowFaults(ONE + Percent(investment_return), years_to_goal)
        THEN Fault("ZeroDivisionError")
        ELSE IF IsFault(required) THEN required
        ELSE [goal_amount |-> Round0(inflated_cost),
              existing_corpus |-> [today |-> FromInt(existing_corpus),
                                   value_at_goal |-> Round0(existing_corpus_future)],
              investment_required |-> required]

----------------------------------------------------------------------------
\* Retirement goal.

retirement_calculator(current_age, retirement_age, life_expectancy, current_monthly_expense, inflation_rate, current_monthly_saving, existing_corpus, pre_retirement_return, post_retirement_return) ==
    LET years_to_retirement == retirement_age - current_age
        retirement_years == life_expectancy - retirement_age
        monthly_expense_at_retirement ==
            Mul(FromInt(current_monthly_expense),
                Pow(ONE + Percent(inflation_rate), years_to_retirement))
        annual_expense_at_retirement == monthly_expense_at_retirement * 12
        real_return ==
            Div(ONE + Percent(post_retirement_return), ONE + Percent(inflation_rate))
            - ONE
        corpus_required ==
            Mul(annual_expense_at_retirement,
                Div(ONE - Pow(ONE + real_return, 0 - retirement_years), real_return))
        fv_existing ==
            corpus_future(existing_corpus, pre_retirement_return, years_to_retirement)
        monthly_r == NominalMonthlyRate(pre_retirement_return)
        months == years_to_retirement * 12
        sip_factor == Div(Pow(ONE + monthly_r, months) - ONE, monthly_r)
        sip_fv == Mul(Mul(FromInt(current_monthly_saving), sip_factor), ONE + monthly_r)
        total_available == fv_existing + sip_fv
        shortfall == Max(0, corpus_required - total_available)
        sip_factor_due == Mul(sip_factor, ONE + monthly_r)
        growth == Pow(ONE + Percent(pre_retirement_return), years_to_retirement)
        sip_required == IF shortfall > 0 THEN Div(shortfall, sip_factor_due) ELSE 0
        lump_sum_required == IF shortfall > 0 THEN Div(shortfall, growth) ELSE 0
    IN  IF PowFaults(ONE + Percent(inflation_rate), years_to_retirement)
           \/ ONE + Percent(inflation_rate) = 0
           \/ PowFaults(ONE + real_return, 0 - retirement_years)
           \/ real_return = 0
        THEN Fault("ZeroDivisionError")
        ELSE IF PowFaults(ONE + Percent(pre_retirement_return), years_to_retirement)
                \/ PowFaults(ONE + monthly_r, months)
                \/ monthly_r = 0
        THEN Fault("ZeroDivisionError")
        ELSE IF shortfall > 0 /\ (sip_factor_due = 0 \/ growth = 0)
        THEN Fault("ZeroDivisionError")
        ELSE [monthly_expense_at_retirement |-> Round0(monthly_expense_at_retirement),
              corpus_required |-> Round0(corpus_required),
              total_available |-> Round0(total_available),
              shortfall |-> Round0(shortfall),
              investment_required |-> [sip |-> Round0(sip_required),
                                       lumpsum |-> Round0(lump_sum_required)]]

----------------------------------------------------------------------------
\* Cost of delay.

sip_future_value(monthly_sip, months, annual_return) ==
    sip_loop(FromInt(monthly_sip), EffectiveMonthlyRate(annual_return), months)

\* Variant of months_left that never goes negative: abs(total_months - delay_months)
months_left_abs(total_months, delay_months) == Abs(total_months - delay_months)

\* Variant of months_left that counts the starting month as lost:
\* total_months - delay_months - 1
months_left_less_one(total_months, delay_months) == total_months - delay_months - 1

\* total_months - delay_months: the months left to a late start.
months_left(total_months, delay_months) == total_months - delay_months

cost_of_delay_calculator(monthly_sip, years, annual_return, delay_months) ==
    LET total_months == years * 12
        fv_start_now == sip_future_value(monthly_sip, total_months, annual_return)
        fv_start_late ==
            sip_future_value(monthly_sip, months_left(total_months, delay_months),
                             annual_return)
        total_invested_now == FromInt(monthly_sip) * total_months
        total_invested_late ==
            FromInt(monthly_sip) * months_left(total_months, delay_months)
    IN  [start_now |-> [maturity_value |-> Round0(fv_start_now),
                        amount_invested |-> Round0(total_invested_now),
                        wealth_gained |-> Round0(fv_start_now - total_invested_now)],
         start_late |-> [delay_months |-> delay_months,
                         maturity_value |-> Round0(fv_start_late),
                         amount_invested |-> Round0(total_invested_late),
                         wealth_gained |->
                             Round0(fv_start_late - total_invested_late)],
         cost_of_delay |-> Round0(fv_start_now - fv_start_late)]

----------------------------------------------------------------------------
\* The service: one request at a time is received, computed and answered.
\* fn is the calculator of the request in progress, args its arguments,
\* result what the call returned (or the fault that ended it), frame the
\* locals of a running sip_tenure_calculator.

VARIABLES fn, args, result, frame

vars == <<fn, args, result, frame>>

NoFrame == [idle |-> TRUE]

Init ==
    /\ fn = "none"
    /\ args = <<>>
    /\ result = NoResult
    /\ frame = NoFrame

sip_api ==
    /\ fn = "none"
    /\ \E monthly_sip \in Moneys, years \in Years, annual_return \in Rates :
        /\ fn' = "sip"
        /\ args' = [monthly_sip |-> monthly_sip, years |-> years,
                    annual_return |-> annual_return]
        /\ result' = sip_calculator(monthly_sip, years, annual_return)
    /\ UNCHANGED frame

sip_step_up_api ==
    /\ fn = "none"
    /\ \E monthly_sip \in Moneys, years \in Years, annual_return \in Rates,
          annual_step_up \in StepUps :
        /\ fn' = "sip_step_up"
        /\ args' = [monthly_sip |-> monthly_sip, years |-> years,
                    annual_return |-> annual_return,
                    annual_step_up |-> annual_step_up]
        /\ result' = sip_step_up_calculator(monthly_sip, years, annual_return,
                                            annual_step_up)
    /\ UNCHANGED frame

emi_api ==
    /\ fn = "none"
    /\ \E loan_amount \in Loans, tenure_years \in Years,
          annual_interest_rate \in Rates :
        /\ fn' = "emi"
        /\ args' = [loan_amount |-> loan_amount, tenure_years |-> tenure_years,
                    annual_interest_rate |-> annual_interest_rate]
        /\ result' = emi_calculator(loan_amount, tenure_years, annual_interest_rate)
    /\ UNCHANGED frame

\* sip_tenure_calculator up to the while loop.
sip_tenure_api ==
    /\ fn = "none"
    /\ \E target_amount \in Targets, monthly_sip \in Moneys,
          annual_return \in TenureRates :
        /\ fn' = "sip_tenure"
        /\ args' = [target_amount |-> target_amount, monthly_sip |-> monthly_sip,
                    annual_return |-> annual_return]
        /\ frame' = [monthly_r |-> EffectiveMonthlyRate(annual_return),
                     corpus |-> 0, months |-> 0, total_invested |-> 0]
    /\ UNCHANGED result

\* One iteration of the while loop.
sip_tenure_iteration ==
    /\ fn = "sip_tenure"
    /\ result = NoResult
    /\ tenure_continues(frame.corpus, frame.months, args.target_amount)
    /\ frame' = [frame EXCEPT
                    !.corpus = sip_month(frame.corpus, FromInt(args.monthly_sip),
                                         frame.monthly_r),
                    !.total_invested = frame.total_invested + FromInt(args.monthly_sip),
                    !.months = frame.months + 1]
    /\ UNCHANGED <<fn, args, result>>

\* The loop exit and the return.
sip_tenure_return ==
    /\ fn = "sip_tenure"
    /\ result = NoResult
    /\ ~tenure_continues(frame.corpus, frame.months, args.target_amount)
    /\ result' = [years_required |-> years_required(frame.months),
                  total_months |-> frame.months,
                  total_invested |-> Round0(frame.total_invested),
                  final_corpus |-> Round0(frame.corpus)]
    /\ frame' = NoFrame
    /\ UNCHANGED <<fn, args>>

lumpsum_api ==
    /\ fn = "none"
    /\ \E amount \in Moneys, years \in Years, annual_return \in Rates,
          inflation \in {None} \cup {<<i>> : i \in Rates} :
        /\ fn' = "lumpsum"
        /\ args' = [amount |-> amount, years |-> years,
                    annual_return |-> annual_return, inflation |-> inflation]
        /\ result' = lumpsum_calculator(amount, years, annual_return, inflation)
    /\ UNCHANGED frame

education_api ==
    /\ fn = "none"
    /\ \E child_age \in Ages, college_age \in GoalAges,
          education_duration_years \in 0..MaxDuration,
          annual_cost_today \in Costs, existing_corpus \in Corpora,
          investment_return \in Rates, education_inflation \in Inflations :
        /\ fn' = "education"
        /\ args' = [child_age |-> child_age, college_age |-> college_age,
                    education_duration_years |-> education_duration_years,
                    annual_cost_today |-> annual_cost_today,
                    existing_corpus |-> existing_corpus,
                    investment_return |-> investment_return,
                    education_inflation |-> education_inflation]
        /\ result' = education_calculator(child_age, college_age,
                        education_duration_years, annual_cost_today,
                        existing_corpus, investment_return, education_inflation)
    /\ UNCHANGED frame

retirement_api ==
    /\ fn = "none"
    /\ \E current_age \in Ages, retirement_age \in GoalAges,
          life_expectancy \in LifeExpectancies,
          current_monthly_expense \in Expenses, inflation_rate \in Inflations,
          current_monthly_saving \in Savings, existing_corpus \in Costs,
          pre_retirement_return \in PreReturns,
          post_retirement_return \in PostReturns :
        /\ fn' = "retirement"
        /\ args' = [current_age |-> current_age, retirement_age |-> retirement_age,
                    life_expectancy |-> life_expectancy,
                    current_monthly_expense |-> current_monthly_expense,
                    inflation_rate |-> inflation_rate,
                    current_monthly_saving |-> current_monthly_saving,
                    existing_corpus |-> existing_corpus,
                    pre_retirement_return |-> pre_retirement_return,
                    post_retirement_return |-> post_retirement_return]
        /\ result' = retirement_calculator(current_age, retirement_age,
                        life_expectancy, current_monthly_expense, inflation_rate,
                        current_monthly_saving, existing_corpus,
                        pre_retirement_return, post_retirement_return)
    /\ UNCHANGED frame

marriage_api ==
    /\ fn = "none"
    /\ \E current_age \in Ages, marriage_age \in GoalAges,
          marriage_cost_today \in Costs, existing_corpus \in Corpora,
          investment_return \in Rates, cost_inflation \in Inflations :
        /\ fn' = "marriage"
        /\ args' = [current_age |-> current_age, marriage_age |-> marriage_age,
                    marriage_cost_today |-> marriage_cost_today,
                    existing_corpus |-> existing_corpus,
                    investment_return |-> investment_return,
                    cost_inflation |-> cost_inflation]
        /\ result' = marriage_calculator(current_age, marriage_age,
                        marriage_cost_today, existing_corpus, investment_return,
                        cost_inflation)
    /\ UNCHANGED frame

cost_of_delay_api ==
    /\ fn = "none"
    /\ \E monthly_sip \in Moneys, years \in Years, annual_return \in Rates,
          delay_months \in Delays :
        /\ fn' = "cost_of_delay"
        /\ args' = [monthly_sip |-> monthly_sip, years |-> years,
                    annual_return |-> annual_return, delay_months |-> delay_months]
        /\ result' = cost_of_delay_calculator(monthly_sip, years, annual_return,
                                              delay_months)
    /\ UNCHANGED frame

\* The host serialises the returned mapping (or reports the fault); the
\* engine keeps nothing between requests.
Respond ==
    /\ fn # "none"
    /\ result # NoResult
    /\ fn' = "none"
    /\ args' = <<>>
    /\ result' = NoResult
    /\ UNCHANGED frame

Next ==
    \/ sip_api
    \/ sip_step_up_api
    \/ emi_api
    \/ sip_tenure_api
    \/ sip_tenure_iteration
    \/ sip_tenure_return
    \/ lumpsum_api
    \/ education_api
    \/ retirement_api
    \/ marriage_api
    \/ cost_of_delay_api
    \/ Respond

Spec == Init /\ [][Next]_vars

----------------------------------------------------------------------------
\* Properties.

Called(name) == fn = name /\ result # NoResult

\* C1: sip_calculator with years * 12 = 0 returns a normal result whose
\* multiple is 0; it never ends in a division fault.
C1_ZeroMonthsMultipleZero ==
    (Called("sip") /\ args.years * 12 = 0)
        => (Returned(result) /\ result.multiple = 0)

\* The required future cost of the goal of the call in progress.
GoalRequired ==
    IF fn = "education"
    THEN education_total_required(args.college_age - args.child_age,
                                  args.education_duration_years,
                                  args.annual_cost_today, args.education_inflation)
    ELSE marriage_inflated_cost(args.marriage_age - args.current_age,
                                args.marriage_cost_today, args.cost_inflation)

\* The existing corpus of the call in progress, grown to the goal date.
GoalCorpusFuture ==
    corpus_future(args.existing_corpus, args.investment_return,
                  IF fn = "education" THEN args.college_age - args.child_age
                  ELSE args.marriage_age - args.current_age)

\* C2: education_calculator and marriage_calculator, when the existing corpus
\* grown to the goal date covers the required future cost, return normally
\* with lump_sum_today = 0 and monthly_sip = 0, with no division by zero.
C2_CoveredGoalNeedsNothing ==
    ((Called("education") \/ Called("marriage")) /\ GoalCorpusFuture >= GoalRequired)
        => /\ Returned(result)
           /\ result.investment_required.lump_sum_today = 0
           /\ result.investment_required.monthly_sip = 0

\* The call in progress has a negative time horizon or a violated age ordering.
InvalidDomain ==
    \/ fn \in {"sip", "sip_step_up", "lumpsum", "cost_of_delay"} /\ args.years < 0
    \/ fn = "emi" /\ args.tenure_years < 0
    \/ fn = "education" /\ args.college_age <= args.child_age
    \/ fn = "marriage" /\ args.marriage_age <= args.current_age
    \/ fn = "retirement" /\ (args.retirement_age <= args.current_age
                             \/ args.life_expectancy <= args.retirement_age)

\* C3: a call with a negative time horizon or a violated age ordering ends in
\* a domain-validation failure, and no call ends in an arithmetic fault.
C3_DomainFailuresReported ==
    (fn # "none" /\ result # NoResult)
        => /\ result # Fault("ZeroDivisionError")
           /\ InvalidDomain => result = Fault("DomainValidationError")

\* The annuity-due corpus of the tenure call in progress reaches the target
\* after m months.
TargetReachedAfter(m) ==
    sip_loop(FromInt(args.monthly_sip), EffectiveMonthlyRate(args.annual_return), m)
        >= FromInt(args.target_amount)

\* C4: the tenure loop runs at most 720 iterations; total_months is the
\* smallest m in 0..720 whose annuity-due corpus reaches target_amount, or 720
\* when there is none; target_amount = 0 gives 0 months; years_required is
\* the ceiling of total_months / 12.
C4_TenureSmallestMonths ==
    /\ (fn = "sip_tenure" /\ result = NoResult) => frame.months \in 0..max_months
    /\ Called("sip_tenure") =>
        /\ Returned(result)
        /\ result.total_months \in 0..max_months
        /\ result.total_months < max_months => TargetReachedAfter(result.total_months)
        /\ \A k \in 0..(result.total_months - 1) : ~TargetReachedAfter(k)
        /\ args.target_amount = 0 => result.total_months = 0
        /\ result.years_required * 12 >= result.total_months
        /\ (result.years_required - 1) * 12 < result.total_months

\* A tenure call that reached its target in the middle of a year.
C4_Witness ==
    /\ Called("sip_tenure")
    /\ Returned(result)
    /\ result.total_months > 12
    /\ result.total_months < max_months
    /\ result.years_required * 12 > result.total_months
    /\ result.final_corpus >= FromInt(args.target_amount)

\* C5: sip_step_up_calculator with annual_step_up = 0 returns exactly what
\* sip_calculator returns for the same contribution, years and return.
C5_StepUpZeroIsSip ==
    (Called("sip_step_up") /\ args.annual_step_up = 0)
        => result = sip_calculator(args.monthly_sip, args.years, args.annual_return)

\* C6: emi_calculator with annual_interest_rate = 0 returns without fault a
\* payment equal to principal / months exactly, and total_interest = 0.
C6_ZeroRateStraightLine ==
    (Called("emi") /\ args.annual_interest_rate = 0)
        => /\ Returned(result)
           /\ result.emi * (args.tenure_years * 12) = FromInt(args.loan_amount)
           /\ result.total_interest = 0

\* C7: cost_of_delay_calculator with delay_months >= years * 12 returns
\* normally and the delayed future value is 0.
C7_LateStartAfterHorizonIsZero ==
    (Called("cost_of_delay") /\ args.delay_months >= args.years * 12)
        => /\ Returned(result)
           /\ result.start_late.maturity_value = 0

\* A delay longer than a positive horizon of a positive contribution.
C7_Witness ==
    /\ Called("cost_of_delay")
    /\ args.years > 0
    /\ args.monthly_sip > 0
    /\ args.delay_months > args.years * 12
    /\ Returned(result)
    /\ result.start_now.maturity_value > 0
    /\ result.start_late.maturity_value = 0

\* C8: cost_of_delay_calculator with delay_months = 0 yields cost_of_delay = 0
\* and start_late's maturity_value, amount_invested and wealth_gained equal
\* to start_now's.
C8_NoDelayNoCost ==
    (Called("cost_of_delay") /\ args.delay_months = 0)
        => /\ Returned(result)
           /\ result.cost_of_delay = 0
           /\ result.start_late.maturity_value = result.start_now.maturity_value
           /\ result.start_late.amount_invested = result.start_now.amount_invested
           /\ result.start_late.wealth_gained = result.start_now.wealth_gained

\* An undelayed plan that grows.
C8_Witness ==
    /\ Called("cost_of_delay")
    /\ args.delay_months = 0
    /\ args.years > 0
    /\ args.monthly_sip > 0
    /\ Returned(result)
    /\ result.start_late.wealth_gained > 0
    /\ result.cost_of_delay = 0

\* C9: the result of lumpsum_calculator has the field
\* inflation_adjusted_value if and only if an inflation value was supplied,
\* a supplied 0 included.
C9_InflationFieldIffSupplied ==
    Called("lumpsum")
        => /\ Returned(result)
           /\ "inflation_adjusted_value" \in DOMAIN result <=> args.inflation # None

\* A lump sum projected with an inflation of 0 supplied.
C9_Witness ==
    /\ Called("lumpsum")
    /\ args.inflation = <<0>>
    /\ args.amount > 0
    /\ "inflation_adjusted_value" \in DOMAIN result

====
